---- MODULE Spec2Model ----
(***************************************************************************)
(* The embedded-filesystem importers of pyqtdeploy: pdytools.qrcimporter   *)
(* (pdytools_module.cpp) and mfsimport.mfsimporter (mfsimport.cpp).        *)
(*                                                                         *)
(* Strings are sequences of one-character strings, so that split, mid,    *)
(* startsWith, endsWith and path cleaning are computed, not assumed.       *)
(***************************************************************************)
EXTENDS Integers, Sequences, FiniteSets, TLC

(***************************************************************************)
(* Bounds of the model.                                                    *)
(***************************************************************************)
\* The largest number of optional entries (files, empty directories) that
\* the backing store and the real file system hold besides the executable.
MaxEntries == 3
\* The deepest nesting of find_loader() frames that the model follows.
MaxDepth == 3
\* The same for the deployments on which two importers are constructed.
MaxPairEntries == 1
\* The same for the deployments on which modules are loaded and resources read.
MaxApiEntries == 2
\* The most bytes a resource file holds.
MaxData == 2

(***************************************************************************)
(* QString helpers.                                                        *)
(***************************************************************************)
NullStr == << >>

\* QString::startsWith(QChar)
StartsWith(s, c) == Len(s) > 0 /\ s[1] = c

\* QString::endsWith(QChar)
EndsWith(s, c) == Len(s) > 0 /\ s[Len(s)] = c

\* QString::contains(QChar)
Contains(s, c) == \E i \in 1..Len(s) : s[i] = c

\* QString::mid(position, n), position counted from 0.
Mid(s, position, n) ==
    IF position > Len(s) THEN NullStr
    ELSE IF n < 0 \/ position + n > Len(s)
         THEN SubSeq(s, position + 1, Len(s))
         ELSE SubSeq(s, position + 1, position + n)

\* QString::split(sep, KeepEmptyParts): the parts between the separators.
RECURSIVE SplitFrom(_, _, _, _)
SplitFrom(s, sep, i, cur) ==
    IF i > Len(s) THEN << cur >>
    ELSE IF s[i] = sep THEN << cur >> \o SplitFrom(s, sep, i + 1, NullStr)
    ELSE SplitFrom(s, sep, i + 1, Append(cur, s[i]))

Split(s, sep) == SplitFrom(s, sep, 1, NullStr)

\* QString::split(sep, SkipEmptyParts)
SplitKeepEmpty(s, sep) == Split(s, sep)

SplitSkipEmpty(s, sep) == SelectSeq(Split(s, sep), LAMBDA p : p # NullStr)

\* QStringList::join(sep)
RECURSIVE JoinFrom(_, _, _)
JoinFrom(parts, sep, k) ==
    IF k > Len(parts) THEN NullStr
    ELSE IF k = Len(parts) THEN parts[k]
    ELSE parts[k] \o << sep >> \o JoinFrom(parts, sep, k + 1)

Join(parts, sep) == JoinFrom(parts, sep, 1)

\* QStringList::takeLast(): the list without its last element, and that element.
AllButLast(parts) == SubSeq(parts, 1, Len(parts) - 1)
LastOf(parts) == parts[Len(parts)]

(***************************************************************************)
(* String literals of the sources.                                         *)
(***************************************************************************)
DotPyo == << ".", "p", "y", "o" >>
SlashInitPyo ==
    << "/", "_", "_", "i", "n", "i", "t", "_", "_", ".", "p", "y", "o" >>
DotPyf == << ".", "p", "y", "f" >>
SlashInitPyf ==
    << "/", "_", "_", "i", "n", "i", "t", "_", "_", ".", "p", "y", "f" >>
DotSo == << ".", "s", "o" >>
DotPyd == << ".", "p", "y", "d" >>
PlugInsPrefix == << ".", ".", "/", "P", "l", "u", "g", "I", "n", "s", "/" >>
FrameworksPrefix ==
    << ".", ".", "/", "F", "r", "a", "m", "e", "w", "o", "r", "k", "s", "/" >>

(***************************************************************************)
(* The file systems seen through QFileInfo: the Qt resource tree (paths    *)
(* that begin with ":") and the real file system beside the executable.    *)
(***************************************************************************)
\* QDir::cleanPath(): "." and empty components dropped, ".." resolved.
\* parts[1] is the root ("" or ":"), which ".." never leaves.
RECURSIVE CleanParts(_, _, _)
CleanParts(parts, k, acc) ==
    IF k > Len(parts) THEN acc
    ELSE IF parts[k] = NullStr \/ parts[k] = << "." >>
         THEN CleanParts(parts, k + 1, acc)
    ELSE IF parts[k] = << ".", "." >>
         THEN CleanParts(parts, k + 1, AllButLast(acc))
    ELSE CleanParts(parts, k + 1, Append(acc, parts[k]))

RootedPath(root, parts) ==
    IF Len(parts) = 0 THEN root \o << "/" >>
    ELSE Join(<< root >> \o parts, "/")

CleanPath(p) ==
    LET parts == Split(p, "/")
    IN  RootedPath(parts[1], CleanParts(parts, 2, << >>))

\* The directories that contain the entry q.
AncestorsOf(q) ==
    LET parts == Split(q, "/")
    IN  { RootedPath(Head(parts), SubSeq(parts, 2, k)) : k \in 1..(Len(parts) - 1) }

\* Path literals.
Path(parts) == Join(parts, "/")
QrcRoot == << ":" >>
FsRoot == NullStr
NameA == << "a" >>
NameB == << "b" >>
NameM == << "m" >>
NameR == << "r" >>
NameX == << "x" >>
NameZ == << "z" >>
NameInit == << "_", "_", "i", "n", "i", "t", "_", "_" >>
NamePlugIns == << "P", "l", "u", "g", "I", "n", "s" >>
NameFrameworks == << "F", "r", "a", "m", "e", "w", "o", "r", "k", "s" >>
FqmnAM == << "a", ".", "m" >>
FqmnBM == << "b", ".", "m" >>

\* The application executable and the other value sys.executable may hold.
ExePath == Path(<< FsRoot, NameR, NameB, NameX >>)
AltExePath == Path(<< FsRoot, NameR, NameX >>)

\* What every deployment holds: the executable and the package directory a.
BaseFiles == { ExePath }
BaseDirs == { Path(<< QrcRoot, NameA >>) }

\* The optional entries of a deployment, by build and platform.
QrcTreeEntries ==
    { [file |-> TRUE, path |-> Path(<< QrcRoot, NameM \o DotPyo >>)],
      [file |-> TRUE, path |-> Path(<< QrcRoot, NameM, NameInit \o DotPyo >>)],
      [file |-> TRUE, path |-> Path(<< QrcRoot, NameA, NameM \o DotPyo >>)],
      [file |-> TRUE, path |-> Path(<< QrcRoot, NameA, NameM, NameInit \o DotPyo >>)],
      [file |-> FALSE, path |-> Path(<< QrcRoot, NameM >>)],
      [file |-> FALSE, path |-> Path(<< QrcRoot, NameA, NameM >>)] }

\* Extension modules beside the executable, named as the platform names them.
AdjacentEntries(os) ==
    LET ext == IF os = "win" THEN DotPyd ELSE DotSo
    IN  { [file |-> TRUE, path |-> Path(<< FsRoot, NameR, NameB, NameM \o ext >>)],
          [file |-> TRUE, path |-> Path(<< FsRoot, NameR, NameB, FqmnAM \o ext >>)] }
        \cup
        (IF os = "darwin"
         THEN { [file |-> TRUE,
                 path |-> Path(<< FsRoot, NameR, NamePlugIns, NameM \o ext >>)],
                [file |-> TRUE,
                 path |-> Path(<< FsRoot, NameR, NameFrameworks, NameM \o ext >>)] }
         ELSE { })

QrcEntries(os) == QrcTreeEntries \cup AdjacentEntries(os)

MfsEntries ==
    { [file |-> TRUE, path |-> Path(<< QrcRoot, NameM \o DotPyf >>)],
      [file |-> TRUE, path |-> Path(<< QrcRoot, NameM, NameInit \o DotPyf >>)],
      [file |-> TRUE, path |-> Path(<< QrcRoot, NameA, NameM \o DotPyf >>)],
      [file |-> FALSE, path |-> Path(<< QrcRoot, NameM >>)],
      [file |-> FALSE, path |-> Path(<< QrcRoot, NameA, NameM >>)] }

Builds == { "qrc", "mfs" }
Platforms == { "darwin", "unix", "win" }
ImpIds == { 1 }
PairIds == { 1, 2 }

\* The FQMNs presented to the importers and the paths they are built on.
Fqmns == { NameM, NameA, FqmnAM, FqmnBM }
ImporterPaths ==
    { Path(<< QrcRoot, NullStr >>), Path(<< QrcRoot, NameA >>),
      Path(<< FsRoot, NameR >>), Path(<< QrcRoot, NameZ >>) }
ExeNames == { ExePath, AltExePath }

\* The interpreter the module is compiled for and linked into: PY_VERSION_HEX
\* as << major, minor >>, and the names of PyImport_Inittab.
PythonVersions == { << 2, 7 >>, << 3, 7 >> }
Inittabs == { { }, { FqmnBM } }
Hosts == [python : PythonVersions, inittab : Inittabs]
Python3Host == [python |-> << 3, 7 >>, inittab |-> { }]

VARIABLES
    build,          \* which importer module the executable links ("qrc", "mfs")
    platform,       \* the platform the module was compiled for
    host,           \* the interpreter: its version and its table of builtins
    files,          \* the files of the resource tree and of the real file system
    dirs,           \* the directories of both
    importers,      \* the importer objects: ok (constructed), path, path_parts
    executable_dir, \* the static QDir *executable_dir: << >> (null) or << path >>
    recursing,      \* the static bool recursing of find_loader()
    stack,          \* the find_loader() frames waiting on a delegated lookup
    delegations,    \* delegated lookups started by the current top-level call
    last,           \* the last call made on an importer and what it returned
    reader,         \* the QrcReader object: ok (constructed), pathname
    resource        \* the QrcResource object: ok (constructed), its QFile:
                    \* open, fileName, data, pos, and the bytes read so far

vars == << build, platform, host, files, dirs, importers, executable_dir,
           recursing, stack, delegations, last, reader, resource >>

\* #if PY_MAJOR_VERSION >= 3 and #if PY_VERSION_HEX >= 0x03070000
Python3 == host.python[1] >= 3
Python37 == host.python[1] > 3 \/ (host.python[1] = 3 /\ host.python[2] >= 7)

\* QFileInfo::isFile() and QFileInfo::isDir()
IsFile(p) == p # NullStr /\ CleanPath(p) \in files
IsDir(p) == p # NullStr /\ CleanPath(p) \in dirs

\* QDir::filePath(fileName)
FilePath(dir, fileName) ==
    IF StartsWith(fileName, "/") THEN fileName
    ELSE IF fileName = NullStr THEN dir
    ELSE IF dir # NullStr /\ ~EndsWith(dir, "/") THEN dir \o << "/" >> \o fileName
    ELSE dir \o fileName

\* extension_module_extension
ExtensionModuleExtension == IF platform = "win" THEN DotPyd ELSE DotSo

(***************************************************************************)
(* find_module(): the resolver of each importer.  The result carries the   *)
(* returned ModuleType, the two output strings, the QFileInfo probes made  *)
(* in order, and whether *executable_dir was read.                         *)
(***************************************************************************)
Resolved(kind, pathname, filename, probes, deref) ==
    [kind |-> kind, pathname |-> pathname, filename |-> filename,
     probes |-> probes, deref |-> deref]

\* if (executable_dir)
ExecutableDirAssumedSet == TRUE

ExecutableDirIsSet == executable_dir # << >>

\* pdytools_get_executable_dir(): *executable_dir.  Nothing of the program
\* reads it through a null pointer; the model gives that read no directory.
GetExecutableDir == IF executable_dir = << >> THEN NullStr ELSE executable_dir[1]

\* The adjacent extension module probes of pdytools find_module(), in order.
AdjacentCandidatesOwnFirst(fqmn) ==
    LET exec_dir == GetExecutableDir
        em_name == fqmn \o ExtensionModuleExtension
    IN  << FilePath(exec_dir, em_name) >>
        \o (IF platform = "darwin"
            THEN << FilePath(exec_dir, PlugInsPrefix \o em_name),
                    FilePath(exec_dir, FrameworksPrefix \o em_name) >>
            ELSE << >>)

AdjacentCandidates(fqmn) ==
    LET exec_dir == GetExecutableDir
        em_name == fqmn \o ExtensionModuleExtension
    IN  (IF platform = "darwin"
         THEN << FilePath(exec_dir, PlugInsPrefix \o em_name),
                 FilePath(exec_dir, FrameworksPrefix \o em_name) >>
         ELSE << >>)
        \o << FilePath(exec_dir, em_name) >>

\* The first candidate that is a file, 0 when there is none.
FirstFile(candidates) ==
    LET hits == { i \in 1..Len(candidates) : IsFile(candidates[i]) }
    IN  IF hits = { } THEN 0 ELSE CHOOSE i \in hits : \A j \in hits : i <= j

\* pdytools find_module(), last step: "See if it is a namespace", else
\* "Nothing was found".  probes are the probes made so far.
QrcSeeNamespaceAsFile(pathname, probes, deref) ==
    IF IsFile(pathname)
    THEN Resolved("ModuleIsNamespace", pathname, pathname,
                  Append(probes, pathname), deref)
    ELSE Resolved("ModuleNotFound", pathname, pathname,
                  Append(probes, pathname), deref)

QrcSeeNamespace(pathname, probes, deref) ==
    IF IsDir(pathname)
    THEN Resolved("ModuleIsNamespace", pathname, pathname,
                  Append(probes, pathname), deref)
    ELSE Resolved("ModuleNotFound", pathname, pathname,
                  Append(probes, pathname), deref)

\* pdytools find_module(): "See if it is an adjacent extension module".
QrcSeeAdjacentAfterNamespace(fqmn, pathname, probes) ==
    IF IsDir(pathname) \/ ~ExecutableDirIsSet
    THEN QrcSeeNamespace(pathname, probes, FALSE)
    ELSE LET candidates == AdjacentCandidates(fqmn)
             hit == FirstFile(candidates)
         IN  IF hit # 0
             THEN Resolved("ModuleIsAdjacentExtensionModule", pathname,
                           candidates[hit],
                           probes \o SubSeq(candidates, 1, hit), TRUE)
             ELSE QrcSeeNamespace(pathname, probes \o candidates, TRUE)

QrcSeeAdjacent(fqmn, pathname, probes) ==
    IF ExecutableDirIsSet
    THEN LET candidates == AdjacentCandidates(fqmn)
             hit == FirstFile(candidates)
         IN  IF hit # 0
             THEN Resolved("ModuleIsAdjacentExtensionModule", pathname,
                           candidates[hit],
                           probes \o SubSeq(candidates, 1, hit), TRUE)
             ELSE QrcSeeNamespace(pathname, probes \o candidates, TRUE)
    ELSE QrcSeeNamespace(pathname, probes, FALSE)

\* pdytools find_module(): "See if it is a package".
QrcSeePackage(fqmn, pathname, probes) ==
    LET filename == pathname \o SlashInitPyo
    IN  IF IsFile(filename)
        THEN Resolved("ModuleIsPackage", pathname, filename,
                      Append(probes, filename), FALSE)
        ELSE QrcSeeAdjacent(fqmn, pathname, Append(probes, filename))

\* pdytools find_module(): "See if it is an ordinary module".
QrcSeeModulePackageFirst(fqmn, pathname) ==
    LET filename == pathname \o DotPyo
        package == pathname \o SlashInitPyo
    IN  IF IsFile(package)
        THEN Resolved("ModuleIsPackage", pathname, package, << package >>, FALSE)
        ELSE IF IsFile(filename)
        THEN Resolved("ModuleIsModule", pathname, filename,
                      << package, filename >>, FALSE)
        ELSE QrcSeePackage(fqmn, pathname, << filename >>)

QrcSeeModule(fqmn, pathname) ==
    LET filename == pathname \o DotPyo
    IN  IF IsFile(filename)
        THEN Resolved("ModuleIsModule", pathname, filename, << filename >>, FALSE)
        ELSE QrcSeePackage(fqmn, pathname, << filename >>)

\* if (*self->path_parts != fqmn_parts) return ModuleNotFound;
QrcResponsibleByDepth(self, fqmn_parts) == Len(self.path_parts) = Len(fqmn_parts)

QrcResponsible(self, fqmn_parts) == self.path_parts = fqmn_parts

\* find_module() of pdytools_module.cpp.  pathname and filename are the
\* caller's empty strings when the FQMN is rejected at once.
QrcFindModule(self, fqmn) ==
    LET fqmn_parts == AllButLast(Split(fqmn, "."))
        fqmn_last == LastOf(Split(fqmn, "."))
    IN  IF ~QrcResponsible(self, fqmn_parts)
        THEN Resolved("ModuleNotFound", NullStr, NullStr, << >>, FALSE)
        ELSE QrcSeeModule(fqmn, self.path \o fqmn_last)

\* find_module() of mfsimport.cpp.
MfsFindModuleByFirstPart(self, fqmn) ==
    LET pathname == self.path \o << "/" >> \o Head(Split(fqmn, "."))
        module == pathname \o DotPyf
        package == pathname \o SlashInitPyf
    IN  IF IsFile(module)
        THEN Resolved("ModuleIsModule", pathname, module, << module >>, FALSE)
        ELSE IF IsFile(package)
        THEN Resolved("ModuleIsPackage", pathname, package,
                      << module, package >>, FALSE)
        ELSE IF IsDir(pathname)
        THEN Resolved("ModuleIsNamespace", pathname, pathname,
                      << module, package, pathname >>, FALSE)
        ELSE Resolved("ModuleNotFound", pathname, pathname,
                      << module, package, pathname >>, FALSE)

MfsFindModule(self, fqmn) ==
    LET pathname == self.path \o << "/" >> \o LastOf(Split(fqmn, "."))
        module == pathname \o DotPyf
        package == pathname \o SlashInitPyf
    IN  IF IsFile(module)
        THEN Resolved("ModuleIsModule", pathname, module, << module >>, FALSE)
        ELSE IF IsFile(package)
        THEN Resolved("ModuleIsPackage", pathname, package,
                      << module, package >>, FALSE)
        ELSE IF IsDir(pathname)
        THEN Resolved("ModuleIsNamespace", pathname, pathname,
                      << module, package, pathname >>, FALSE)
        ELSE Resolved("ModuleNotFound", pathname, pathname,
                      << module, package, pathname >>, FALSE)

\* The find_module() of the importer module the executable links.
FindModule(self, fqmn) ==
    IF build = "qrc" THEN QrcFindModule(self, fqmn) ELSE MfsFindModule(self, fqmn)

(***************************************************************************)
(* The initial state: a deployment (build, platform, file systems) with    *)
(* no importer constructed and the executable directory not yet set.       *)
(***************************************************************************)
NoImporter == [ok |-> FALSE, path |-> NullStr, path_parts |-> << >>]
NoCall == [op |-> "none"]
NoReader == [ok |-> FALSE, pathname |-> NullStr]
\* No QrcResource object; of one, data and pos are the bytes and the read
\* position of its QFile, and got records the bytes read() has returned.
NoResource ==
    [ok |-> FALSE, open |-> FALSE, fileName |-> NullStr, data |-> << >>,
     pos |-> 0, got |-> << >>]

Deployments(entries) ==
    { chosen \in SUBSET entries : Cardinality(chosen) <= MaxEntries }

DirsOf(fileSet, dirSet) ==
    dirSet \cup UNION { AncestorsOf(q) : q \in fileSet \cup dirSet }

\* Nothing constructed, nothing called, the statics as they are initialised.
Fresh(ids) ==
    /\ importers = [i \in ids |-> NoImporter]
    /\ executable_dir = << >>
    /\ recursing = FALSE
    /\ stack = << >>
    /\ delegations = 0
    /\ last = NoCall
    /\ reader = NoReader
    /\ resource = NoResource

Init ==
    /\ host = Python3Host
    /\ build \in Builds
    /\ platform \in (IF build = "qrc" THEN Platforms ELSE { "unix" })
    /\ \E chosen \in Deployments(IF build = "qrc" THEN QrcEntries(platform)
                                  ELSE MfsEntries) :
          /\ files = BaseFiles \cup { e.path : e \in { c \in chosen : c.file } }
          /\ dirs = DirsOf(BaseFiles \cup { e.path : e \in { c \in chosen : c.file } },
                           BaseDirs \cup { e.path : e \in { c \in chosen : ~c.file } })
    /\ Fresh(ImpIds)

(***************************************************************************)
(* Construction.                                                           *)
(***************************************************************************)
\* qrcimporter_init(): tp_init of pdytools.qrcimporter.
QrcImporterInitAsGiven(i, path) ==
    /\ build = "qrc"
    /\ stack = << >>
    /\ IF ~StartsWith(path, ":") \/ ~IsDir(path)
       THEN /\ last' = [op |-> "init", self |-> i, arg |-> path, ret |-> "ImportError"]
            /\ UNCHANGED importers
       ELSE /\ importers' =
                  [importers EXCEPT ![i] =
                      [ok |-> TRUE, path |-> path,
                       path_parts |-> SplitSkipEmpty(Mid(path, 2, Len(path) - 3), "/")]]
            /\ last' = [op |-> "init", self |-> i, arg |-> path, ret |-> "ok"]
    /\ UNCHANGED << build, platform, host, files, dirs, executable_dir, recursing,
                    stack, delegations, reader, resource >>

QrcImporterInit(i, path) ==
    /\ build = "qrc"
    /\ stack = << >>
    /\ IF ~StartsWith(path, ":") \/ ~IsDir(path)
       THEN /\ last' = [op |-> "init", self |-> i, arg |-> path, ret |-> "ImportError"]
            /\ UNCHANGED importers
       ELSE LET q_path == IF EndsWith(path, "/") THEN path ELSE Append(path, "/")
            IN  /\ importers' =
                      [importers EXCEPT ![i] =
                          [ok |-> TRUE, path |-> q_path,
                           path_parts |->
                               SplitSkipEmpty(Mid(q_path, 2, Len(q_path) - 3), "/")]]
                /\ last' = [op |-> "init", self |-> i, arg |-> path, ret |-> "ok"]
    /\ UNCHANGED << build, platform, host, files, dirs, executable_dir, recursing,
                    stack, delegations, reader, resource >>

\* mfsimporter_init(): tp_init of mfsimport.mfsimporter.
MfsImporterInit(i, path) ==
    /\ build = "mfs"
    /\ stack = << >>
    /\ IF ~IsDir(path)
       THEN /\ last' = [op |-> "init", self |-> i, arg |-> path, ret |-> "ImportError"]
            /\ UNCHANGED importers
       ELSE /\ importers' =
                  [importers EXCEPT ![i] =
                      [ok |-> TRUE, path |-> path, path_parts |-> << >>]]
            /\ last' = [op |-> "init", self |-> i, arg |-> path, ret |-> "ok"]
    /\ UNCHANGED << build, platform, host, files, dirs, executable_dir, recursing,
                    stack, delegations, reader, resource >>

\* QDir(name), makeAbsolute(), cdUp(): the directory above name when it exists.
DirAbove(name) ==
    LET up == CleanPath(name \o << "/", ".", "." >>)
    IN  IF IsDir(up) THEN up ELSE CleanPath(name)

\* pdytools_init_executable_dir(argv0): sys_executable is sys.executable,
\* << >> when it is missing or None.
InitExecutableDir(argv0, sys_executable) ==
    /\ build = "qrc"
    /\ stack = << >>
    /\ LET name == IF sys_executable # << >> THEN sys_executable[1] ELSE argv0
       IN  executable_dir' = << DirAbove(name) >>
    /\ UNCHANGED << build, platform, host, files, dirs, importers, recursing,
                    stack, delegations, last, reader, resource >>

(***************************************************************************)
(* find_loader() and its delegated lookup through importlib.find_loader(). *)
(***************************************************************************)
\* case ModuleNotFound: if (fqmn.contains(QChar('.')) && !recursing)
DelegatesUnguarded(fqmn, res) ==
    res.kind = "ModuleNotFound" /\ Contains(fqmn, ".")

DelegatesUndotted(fqmn, res) ==
    res.kind = "ModuleNotFound" /\ ~recursing

DelegatesOnceNested(fqmn, res) ==
    res.kind = "ModuleNotFound" /\ Contains(fqmn, ".") /\ Len(stack) < 2

Delegates(fqmn, res) ==
    res.kind = "ModuleNotFound" /\ Contains(fqmn, ".") /\ ~recursing

\* What find_loader() has returned: a (loader, portions) pair, or no pair
\* when the call is waiting on its delegated lookup or has returned NULL
\* with the lookup's exception set.
Pending == [loader |-> "pending", portions |-> << >>]
ReturnedNull == [loader |-> "NULL", portions |-> << >>]

\* The (loader, portions) pair built without a delegated lookup.
LoaderPairSelfForNamespace(res) ==
    IF res.kind # "ModuleNotFound"
    THEN [loader |-> "self",
          portions |-> IF res.kind = "ModuleIsNamespace" THEN << res.pathname >>
                       ELSE << >>]
    ELSE [loader |-> "None", portions |-> << >>]

LoaderPair(res) ==
    IF res.kind \in { "ModuleIsModule", "ModuleIsPackage",
                      "ModuleIsAdjacentExtensionModule" }
    THEN [loader |-> "self", portions |-> << >>]
    ELSE IF res.kind = "ModuleIsNamespace"
    THEN [loader |-> "None", portions |-> << res.pathname >>]
    ELSE [loader |-> "None", portions |-> << >>]

\* qrcimporter_find_loader() / mfsimporter_find_loader(), up to its return
\* or up to the call of importlib.find_loader().  The caller is the host when
\* no call is in progress (stack empty), and otherwise the external resolver
\* of the innermost delegated lookup, calling back.
FindLoaderBody(i, fqmn) ==
    /\ Python3
    /\ importers[i].ok
    /\ LET res == FindModule(importers[i], fqmn)
           depth == Len(stack)
       IN  IF Delegates(fqmn, res)
           THEN /\ depth < MaxDepth
                /\ recursing' = TRUE
                /\ stack' = Append(stack, [self |-> i, fqmn |-> fqmn, res |-> res])
                /\ delegations' = IF depth = 0 THEN 1 ELSE delegations + 1
                /\ last' = [op |-> "find_loader", self |-> i, fqmn |-> fqmn,
                            res |-> res, exec |-> executable_dir',
                            depth |-> depth, ret |-> Pending]
           ELSE /\ UNCHANGED stack
                /\ delegations' = IF depth = 0 THEN 0 ELSE delegations
                /\ last' = [op |-> "find_loader", self |-> i, fqmn |-> fqmn,
                            res |-> res, exec |-> executable_dir',
                            depth |-> depth, ret |-> LoaderPair(res)]
                /\ UNCHANGED recursing

FindLoaderLazyInit(i, fqmn) ==
    /\ executable_dir' = IF executable_dir = << >> THEN << DirAbove(ExePath) >>
                         ELSE executable_dir
    /\ UNCHANGED << build, platform, host, files, dirs, importers, reader,
                    resource >>
    /\ FindLoaderBody(i, fqmn)

FindLoader(i, fqmn) ==
    /\ UNCHANGED << build, platform, host, files, dirs, importers, executable_dir,
                    reader, resource >>
    /\ FindLoaderBody(i, fqmn)

\* PyObject_CallObject(find_loader, args) returns: recursing = false, then
\* NULL is passed on or the loader is paired with an empty portion list.
ExternalOutcomes == { "external", "None", "error" }

\* recursing = false; on the line after the call, whatever it returned.
RecursingAfterFailedCall(outcome) == outcome = "error"

RecursingAfterCall(outcome) == FALSE

DelegationReturns(outcome) ==
    /\ stack # << >>
    /\ UNCHANGED << build, platform, host, files, dirs, importers, executable_dir,
                    delegations, reader, resource >>
    /\ LET frame == stack[Len(stack)]
       IN  last' = [op |-> "find_loader", self |-> frame.self, fqmn |-> frame.fqmn,
                    res |-> frame.res, exec |-> executable_dir',
                    depth |-> Len(stack) - 1,
                    ret |-> IF outcome = "error" THEN ReturnedNull
                            ELSE [loader |-> outcome, portions |-> << >>]]
    /\ recursing' = RecursingAfterCall(outcome)
    /\ stack' = AllButLast(stack)

Next ==
    \/ \E i \in DOMAIN importers, path \in ImporterPaths : QrcImporterInit(i, path)
    \/ \E i \in DOMAIN importers, path \in ImporterPaths : MfsImporterInit(i, path)
    \/ \E argv0 \in ExeNames, sys_executable \in { << >> } \cup { << n >> : n \in ExeNames } :
          InitExecutableDir(argv0, sys_executable)
    \/ \E i \in DOMAIN importers, fqmn \in Fqmns : FindLoader(i, fqmn)
    \/ \E outcome \in ExternalOutcomes : DelegationReturns(outcome)

Spec == Init /\ [][Next]_vars

\* Two importer objects of the same type in one process, over a resource
\* tree (or file system) of few entries.
PairInit ==
    /\ host = Python3Host
    /\ build \in Builds
    /\ platform = "unix"
    /\ \E chosen \in SUBSET (IF build = "qrc" THEN QrcTreeEntries ELSE MfsEntries) :
          /\ Cardinality(chosen) <= MaxPairEntries
          /\ files = BaseFiles \cup { e.path : e \in { c \in chosen : c.file } }
          /\ dirs = DirsOf(BaseFiles \cup { e.path : e \in { c \in chosen : c.file } },
                           BaseDirs \cup { e.path : e \in { c \in chosen : ~c.file } })
    /\ Fresh(PairIds)

PairSpec == PairInit /\ [][Next]_vars

(***************************************************************************)
(* load_module().  The calls made to the host (the interpreter and its imp  *)
(* module) are recorded in order: call, the module name, the arguments.    *)
(***************************************************************************)
HostCall(call, name, arg) == [call |-> call, name |-> name, arg |-> arg]

\* What a load did: the files it read, the host calls it made, the object
\* returned ("NULL" with the exception err set).
Loaded(reads, calls, ret, err) ==
    [reads |-> reads, calls |-> calls, ret |-> ret, err |-> err]

\* The exceptions: raise_import_error(), read_data()'s ImportError, the
\* exception of PyMarshal_ReadObjectFromString(), one raised by a host call.
CantFindModule == "ImportError: can't find module"
ErrorOpeningFile == "ImportError: error opening file"
MarshalError == "marshal error"
HostError == "host error"
NoError == "none"

\* QFile::open(QIODevice::ReadOnly): opens is FALSE when the device cannot
\* be opened although the store lists the file.
CanOpen(fileName, opens) == IsFile(fileName) /\ opens

\* What the host's calls may return, and the marshalled blobs a file may hold.
HostReturns == { "module", "None", "error" }
Blobs == { "code", "corrupt" }

\* The circumstances of one load: whether the file opens, what it holds and
\* what the host's call returns; one thing goes wrong at a time.
LoadEnvs ==
    { [opens |-> TRUE, blob |-> "code", hostret |-> r] : r \in HostReturns } \cup
    { [opens |-> FALSE, blob |-> "code", hostret |-> "module"],
      [opens |-> TRUE, blob |-> "corrupt", hostret |-> "module"] }

\* #if PY_MAJOR_VERSION < 3: return PyObject_CallObject(init_builtin, args);
LoadBuiltin(fqmn, hostret) ==
    Loaded(<< >>, << HostCall("imp.init_builtin", fqmn, << >>) >>,
           IF hostret = "error" THEN "NULL" ELSE hostret,
           IF hostret = "error" THEN HostError ELSE NoError)

\* if (mt == ModuleIsAdjacentExtensionModule): open(filename, "rb") and
\* imp.load_module(fqmn, file, filename, (extension, "rb", 3)).
LoadAdjacent(fqmn, filename, opens, hostret) ==
    LET open == HostCall("open", NullStr, << filename >>)
        load == HostCall("imp.load_module", fqmn,
                         << filename, ExtensionModuleExtension >>)
    IN  IF ~CanOpen(filename, opens)
        THEN Loaded(<< >>, << open >>, "NULL", HostError)
        ELSE IF hostret = "error"
        THEN Loaded(<< >>, << open, load >>, "NULL", HostError)
        ELSE Loaded(<< >>, << open, load >>, "module", NoError)

\* get_code_object(): read_data() opens and reads the file once, and
\* PyMarshal_ReadObjectFromString() decodes what was read.
GetCodeObjectRetrying(filename, opens, blob) ==
    IF ~CanOpen(filename, opens)
    THEN [code |-> "NULL", err |-> ErrorOpeningFile, reads |-> << filename, filename >>]
    ELSE IF blob = "corrupt"
    THEN [code |-> "NULL", err |-> MarshalError, reads |-> << filename >>]
    ELSE [code |-> "code", err |-> NoError, reads |-> << filename >>]

GetCodeObject(filename, opens, blob) ==
    IF ~CanOpen(filename, opens)
    THEN [code |-> "NULL", err |-> ErrorOpeningFile, reads |-> << filename >>]
    ELSE IF blob = "corrupt"
    THEN [code |-> "NULL", err |-> MarshalError, reads |-> << filename >>]
    ELSE [code |-> "code", err |-> NoError, reads |-> << filename >>]

\* PyImport_AddModule(), __loader__, __path__ for a package, and then
\* PyImport_ExecCodeModule(): the calls made once the code object is there.
InstallCallsPathLast(fqmn, res) ==
    << HostCall("PyImport_AddModule", fqmn, << >>),
       HostCall("__loader__", fqmn, << >>),
       HostCall("PyImport_ExecCodeModule", fqmn, << res.filename >>),
       HostCall("__path__", fqmn, << res.pathname >>) >>

InstallCalls(fqmn, res) ==
    LET add == HostCall("PyImport_AddModule", fqmn, << >>)
        loader == HostCall("__loader__", fqmn, << >>)
        path == HostCall("__path__", fqmn, << res.pathname >>)
        exec == HostCall("PyImport_ExecCodeModule", fqmn, << res.filename >>)
    IN  IF res.kind = "ModuleIsPackage"
        THEN << add, loader, path, exec >>
        ELSE << add, loader, exec >>

\* if (mt != ModuleIsModule && mt != ModuleIsPackage) raise_import_error()
HasCodeOrIsNamespace(res) ==
    res.kind \in { "ModuleIsModule", "ModuleIsPackage", "ModuleIsNamespace" }

HasCode(res) == res.kind \in { "ModuleIsModule", "ModuleIsPackage" }

\* The body of load_module() after its call of find_module().
LoadResolvedModuleFirst(fqmn, res, opens, blob, hostret) ==
    IF ~Python3 /\ res.kind = "ModuleNotFound"
    THEN LoadBuiltin(fqmn, hostret)
    ELSE IF res.kind = "ModuleIsAdjacentExtensionModule"
    THEN LoadAdjacent(fqmn, res.filename, opens, hostret)
    ELSE IF ~HasCode(res)
    THEN Loaded(<< >>, << >>, "NULL", CantFindModule)
    ELSE LET got == GetCodeObject(res.filename, opens, blob)
         IN  IF got.code = "NULL"
             THEN Loaded(got.reads, SubSeq(InstallCalls(fqmn, res), 1, 2),
                         "NULL", got.err)
             ELSE Loaded(got.reads, InstallCalls(fqmn, res),
                         IF hostret = "error" THEN "NULL" ELSE "module",
                         IF hostret = "error" THEN HostError ELSE NoError)

LoadResolved(fqmn, res, opens, blob, hostret) ==
    IF ~Python3 /\ res.kind = "ModuleNotFound"
    THEN LoadBuiltin(fqmn, hostret)
    ELSE IF res.kind = "ModuleIsAdjacentExtensionModule"
    THEN LoadAdjacent(fqmn, res.filename, opens, hostret)
    ELSE IF ~HasCode(res)
    THEN Loaded(<< >>, << >>, "NULL", CantFindModule)
    ELSE LET got == GetCodeObject(res.filename, opens, blob)
         IN  IF got.code = "NULL"
             THEN Loaded(got.reads, << >>, "NULL", got.err)
             ELSE Loaded(got.reads, InstallCalls(fqmn, res),
                         IF hostret = "error" THEN "NULL" ELSE "module",
                         IF hostret = "error" THEN HostError ELSE NoError)

\* qrcimporter_load_module() / mfsimporter_load_module().
LoadModule(i, fqmn, opens, blob, hostret) ==
    /\ importers[i].ok
    /\ UNCHANGED << build, platform, host, files, dirs, importers, executable_dir,
                    recursing, stack, delegations, reader, resource >>
    /\ LET res == FindModule(importers[i], fqmn)
           did == LoadResolved(fqmn, res, opens, blob, hostret)
       IN  last' = [op |-> "load_module", self |-> i, fqmn |-> fqmn, res |-> res,
                    exec |-> executable_dir', opens |-> opens, blob |-> blob,
                    hostret |-> hostret, reads |-> did.reads,
                    calls |-> did.calls, ret |-> did.ret, err |-> did.err]

\* The deployments on which modules are loaded and resources are read: few
\* entries around the top-level name m, on the platforms that differ in the
\* extension of an extension module.
ApiPlatforms == { "unix", "win" }
ApiEntries(b, os) ==
    IF b = "qrc"
    THEN { [file |-> TRUE, path |-> Path(<< QrcRoot, NameM \o DotPyo >>)],
           [file |-> TRUE, path |-> Path(<< QrcRoot, NameM, NameInit \o DotPyo >>)],
           [file |-> FALSE, path |-> Path(<< QrcRoot, NameM >>)],
           [file |-> FALSE, path |-> Path(<< QrcRoot, NameM, NameA >>)],
           [file |-> TRUE,
            path |-> Path(<< FsRoot, NameR, NameB,
                             NameM \o (IF os = "win" THEN DotPyd ELSE DotSo) >>)] }
    ELSE { [file |-> TRUE, path |-> Path(<< QrcRoot, NameM \o DotPyf >>)],
           [file |-> TRUE, path |-> Path(<< QrcRoot, NameM, NameInit \o DotPyf >>)],
           [file |-> FALSE, path |-> Path(<< QrcRoot, NameM >>)] }

ApiInit(hosts) ==
    /\ host \in hosts
    /\ build \in Builds
    /\ platform \in (IF build = "qrc" THEN ApiPlatforms ELSE { "unix" })
    /\ \E chosen \in SUBSET ApiEntries(build, platform) :
          /\ Cardinality(chosen) <= MaxApiEntries
          /\ files = BaseFiles \cup { e.path : e \in { c \in chosen : c.file } }
          /\ dirs = DirsOf(BaseFiles \cup { e.path : e \in { c \in chosen : c.file } },
                           BaseDirs \cup { e.path : e \in { c \in chosen : ~c.file } })
    /\ Fresh(ImpIds)

\* Construction of the importer and the start-up call that sets the
\* executable directory from argv[0].
Construct ==
    \/ \E i \in DOMAIN importers, path \in ImporterPaths : QrcImporterInit(i, path)
    \/ \E i \in DOMAIN importers, path \in ImporterPaths : MfsImporterInit(i, path)
    \/ InitExecutableDir(ExePath, << >>)

LoadHosts == { h \in Hosts : h.inittab = { } }

LoadNext ==
    \/ Construct
    \/ \E i \in DOMAIN importers, fqmn \in Fqmns, env \in LoadEnvs :
          LoadModule(i, fqmn, env.opens, env.blob, env.hostret)

LoadSpec == ApiInit(LoadHosts) /\ [][LoadNext]_vars

(***************************************************************************)
(* find_module(), the finder method of the old import protocol.            *)
(***************************************************************************)
\* What the method returns for a resolution: the importer, or None unless a
\* dotted name that was not found is in PyImport_Inittab.
LegacyAnswerRaising(fqmn, res) ==
    IF res.kind # "ModuleNotFound" THEN "self" ELSE "NULL"

LegacyAnswer(fqmn, res) ==
    IF res.kind # "ModuleNotFound" THEN "self"
    ELSE IF Contains(fqmn, ".") /\ fqmn \in host.inittab THEN "self"
    ELSE "None"

\* qrcimporter_find_module(), and mfsimporter_find_module() which exists
\* under #if PY_MAJOR_VERSION < 3 only.
FindModuleMethod(i, fqmn) ==
    /\ build = "qrc" \/ ~Python3
    /\ importers[i].ok
    /\ UNCHANGED << build, platform, host, files, dirs, importers, executable_dir,
                    recursing, stack, delegations, reader, resource >>
    /\ LET res == FindModule(importers[i], fqmn)
       IN  last' = [op |-> "find_module", self |-> i, fqmn |-> fqmn, res |-> res,
                    exec |-> executable_dir', ret |-> LegacyAnswer(fqmn, res)]

FinderNext ==
    \/ Construct
    \/ \E i \in DOMAIN importers, fqmn \in Fqmns : FindLoader(i, fqmn)
    \/ \E outcome \in ExternalOutcomes : DelegationReturns(outcome)
    \/ \E i \in DOMAIN importers, fqmn \in Fqmns : FindModuleMethod(i, fqmn)

FinderSpec == ApiInit(Hosts) /\ [][FinderNext]_vars

(***************************************************************************)
(* The resource reader of a package and the resources it opens, compiled   *)
(* under #if PY_VERSION_HEX >= 0x03070000 into pdytools only.              *)
(***************************************************************************)
NotAPackage == "ImportError: is not a package"
FileNotFound == "FileNotFoundError"
\* What the caller of a tp_init gets that returned -1 with no exception
\* set: the interpreter's SystemError, or its abort where it asserts.
NoExceptionSet == { "SystemError", "abort" }

\* The resource names asked for: a file and a directory of the package m,
\* and a name that package does not hold.
ResourceNames == { NameInit \o DotPyo, NameA, NameZ }

\* if (find_module(importer, package, pathname, filename) != ModuleIsPackage)
IsAPackageOrModule(res) == res.kind \in { "ModuleIsPackage", "ModuleIsModule" }

IsAPackage(res) == res.kind = "ModuleIsPackage"

\* qrcimporter_get_resource_reader(): a new QrcReader is created and
\* qrcreader_init() run on it; the object does not outlive a failed init.
GetResourceReader(i, package) ==
    /\ build = "qrc" /\ Python37
    /\ importers[i].ok
    /\ UNCHANGED << build, platform, host, files, dirs, importers, executable_dir,
                    recursing, stack, delegations, resource >>
    /\ LET res == FindModule(importers[i], package)
       IN  IF ~IsAPackage(res)
           THEN /\ UNCHANGED reader
                /\ last' = [op |-> "get_resource_reader", self |-> i,
                            fqmn |-> package, res |-> res,
                            exec |-> executable_dir', ret |-> "NULL",
                            err |-> NotAPackage]
           ELSE /\ reader' = [ok |-> TRUE, pathname |-> res.pathname]
                /\ last' = [op |-> "get_resource_reader", self |-> i,
                            fqmn |-> package, res |-> res,
                            exec |-> executable_dir', ret |-> "reader",
                            err |-> NoError]

\* get_resource_path(reader, resource)
GetResourcePath(r, name) == r.pathname \o << "/" >> \o name

\* QFileInfo::exists()
ExistsAsFile(p) == IsFile(p)

Exists(p) == IsFile(p) \/ IsDir(p)

\* qrcreader_is_resource()
IsResource(name) ==
    /\ reader.ok
    /\ UNCHANGED << build, platform, host, files, dirs, importers, executable_dir,
                    recursing, stack, delegations, reader, resource >>
    /\ LET resource_info == GetResourcePath(reader, name)
       IN  last' = [op |-> "is_resource", name |-> name,
                    ret |-> IF ~Exists(resource_info) THEN "NULL"
                            ELSE IF IsFile(resource_info) THEN "True" ELSE "False",
                    err |-> IF ~Exists(resource_info) THEN FileNotFound ELSE NoError]

\* The bytes a resource file may hold.
Bytes == { "x", "y" }
FileContents == UNION { [1..n -> Bytes] : n \in 0..MaxData }

\* qrcreader_open_resource(): a new QrcResource is created and
\* qrcresource_init() run on it, which returns -1 without setting an
\* exception when QFile::open() fails.  data is what the file holds.
OpenResource(name, seen, data) ==
    /\ reader.ok
    /\ UNCHANGED << build, platform, host, files, dirs, importers, executable_dir,
                    recursing, stack, delegations, reader >>
    /\ LET fileName == GetResourcePath(reader, name)
       IN  IF ~IsFile(fileName)
           THEN /\ UNCHANGED resource
                /\ last' = [op |-> "open_resource", name |-> name,
                            ret |-> "NULL", err |-> seen]
           ELSE /\ resource' = [ok |-> TRUE, open |-> TRUE, fileName |-> fileName,
                                 data |-> data, pos |-> 0, got |-> << >>]
                /\ last' = [op |-> "open_resource", name |-> name,
                            ret |-> "resource", err |-> NoError]

\* qrcreader_resource_path(): no resource is on the file system.
ResourcePathOfStored(name) ==
    /\ reader.ok
    /\ UNCHANGED << build, platform, host, files, dirs, importers, executable_dir,
                    recursing, stack, delegations, reader, resource >>
    /\ last' = IF IsFile(GetResourcePath(reader, name))
               THEN [op |-> "resource_path", name |-> name,
                     ret |-> GetResourcePath(reader, name), err |-> NoError]
               ELSE [op |-> "resource_path", name |-> name,
                     ret |-> "NULL", err |-> FileNotFound]

ResourcePath(name) ==
    /\ reader.ok
    /\ UNCHANGED << build, platform, host, files, dirs, importers, executable_dir,
                    recursing, stack, delegations, reader, resource >>
    /\ last' = [op |-> "resource_path", name |-> name,
                ret |-> "NULL", err |-> FileNotFound]

ReaderInit == ApiInit({ Python3Host }) /\ build = "qrc"

ReaderNext ==
    \/ \E i \in DOMAIN importers, path \in ImporterPaths : QrcImporterInit(i, path)
    \/ InitExecutableDir(ExePath, << >>)
    \/ \E i \in DOMAIN importers, package \in Fqmns : GetResourceReader(i, package)
    \/ \E name \in ResourceNames : IsResource(name)
    \/ \E name \in ResourceNames, seen \in NoExceptionSet, data \in FileContents :
          OpenResource(name, seen, data)
    \/ \E name \in ResourceNames : ResourcePath(name)

ReaderSpec == ReaderInit /\ [][ReaderNext]_vars

(***************************************************************************)
(* The methods of a resource: the QrcResource object open_resource made.   *)
(***************************************************************************)
Min(a, b) == IF a <= b THEN a ELSE b

\* The arguments of read(): none, or one size.  PyArg_ParseTuple "|n"
\* leaves size at -1 when none is given.
ReadArgs == { << >> } \cup { << n >> : n \in (0 - 1)..(MaxData + 1) }
SizeOf(args) == IF args = << >> THEN 0 - 1 ELSE args[1]

\* A method that neither reads nor changes the QFile.
ResourceAnswers(op, ret) ==
    /\ resource.ok
    /\ UNCHANGED << build, platform, host, files, dirs, importers, executable_dir,
                    recursing, stack, delegations, reader, resource >>
    /\ last' = [op |-> op, open |-> resource.open, ret |-> ret, err |-> NoError]

\* qrcresource_close(): if (resource->isOpen()) resource->close();
ResourceCloseToggles ==
    /\ resource.ok
    /\ UNCHANGED << build, platform, host, files, dirs, importers, executable_dir,
                    recursing, stack, delegations, reader >>
    /\ resource' = [resource EXCEPT !.open = ~resource.open]
    /\ last' = [op |-> "close", open |-> resource.open, ret |-> "None",
                err |-> NoError]

ResourceClose ==
    /\ resource.ok
    /\ UNCHANGED << build, platform, host, files, dirs, importers, executable_dir,
                    recursing, stack, delegations, reader >>
    /\ resource' = IF resource.open THEN [resource EXCEPT !.open = FALSE]
                   ELSE resource
    /\ last' = [op |-> "close", open |-> resource.open, ret |-> "None",
                err |-> NoError]

\* qrcresource_flush(), _readable(), _seekable(), _writable()
ResourceFlush == ResourceAnswers("flush", "None")
ResourceReadable == ResourceAnswers("readable", "True")
ResourceSeekable == ResourceAnswers("seekable", "False")
ResourceWritable == ResourceAnswers("writable", "False")

\* qrcresource_get_closed()
ResourceGetClosed ==
    ResourceAnswers("closed", IF resource.open THEN "False" ELSE "True")

\* size < 0 ? resource->readAll() : resource->read(size); a QFile that is
\* not open yields no bytes.
ReadDataFromStart(r, size) ==
    IF ~r.open THEN << >>
    ELSE IF size < 0 THEN r.data
    ELSE SubSeq(r.data, 1, Min(size, Len(r.data)))

ReadData(r, size) ==
    IF ~r.open THEN << >>
    ELSE IF size < 0 THEN SubSeq(r.data, r.pos + 1, Len(r.data))
    ELSE SubSeq(r.data, r.pos + 1, Min(r.pos + size, Len(r.data)))

\* qrcresource_read(): whatever the QFile yields is returned as bytes.
ResourceRead(args) ==
    /\ resource.ok
    /\ UNCHANGED << build, platform, host, files, dirs, importers, executable_dir,
                    recursing, stack, delegations, reader >>
    /\ LET data == ReadData(resource, SizeOf(args))
       IN  /\ resource' = [resource EXCEPT !.pos = @ + Len(data),
                                            !.got = @ \o data]
           /\ last' = [op |-> "read", args |-> args, open |-> resource.open,
                       pos |-> resource.pos, ret |-> data, err |-> NoError]

\* The deployments that hold the package m, whose resources can be opened.
HandleInit ==
    /\ ReaderInit
    /\ IsFile(Path(<< QrcRoot, NameM, NameInit \o DotPyo >>))

HandleNext ==
    \/ \E i \in DOMAIN importers, path \in ImporterPaths : QrcImporterInit(i, path)
    \/ \E i \in DOMAIN importers, package \in Fqmns : GetResourceReader(i, package)
    \/ \E name \in ResourceNames, seen \in NoExceptionSet, data \in FileContents :
          OpenResource(name, seen, data)
    \/ ResourceClose
    \/ ResourceFlush
    \/ ResourceReadable
    \/ ResourceSeekable
    \/ ResourceWritable
    \/ ResourceGetClosed
    \/ \E args \in ReadArgs : ResourceRead(args)

HandleSpec == HandleInit /\ [][HandleNext]_vars

(***************************************************************************)
(* Importers constructed on the logical paths of packages and namespaces,  *)
(* as the host's path hook constructs them from the entries of __path__.   *)
(***************************************************************************)
FqmnAX == << "a", ".", "x" >>
FqmnMX == << "m", ".", "x" >>
FqmnAMX == << "a", ".", "m", ".", "x" >>

\* The component lists c1/.../ck of the roots, and the root ":/c1/.../ck"
\* with or without a trailing separator.
ComponentLists == { << >>, << NameA >>, << NameM >>, << NameA, NameM >> }
RootOf(cs, trailing) ==
    IF cs = << >> THEN Path(<< QrcRoot, NullStr >>)
    ELSE Path(<< QrcRoot >> \o cs) \o (IF trailing THEN << "/" >> ELSE NullStr)
PartsPaths == { RootOf(cs, t) : cs \in ComponentLists, t \in BOOLEAN }
PartsFqmns == { NameM, NameA, NameX, FqmnAM, FqmnAX, FqmnMX, FqmnAMX }

PartsEntries ==
    { [file |-> TRUE, path |-> Path(<< QrcRoot, NameM \o DotPyo >>)],
      [file |-> TRUE, path |-> Path(<< QrcRoot, NameM, NameInit \o DotPyo >>)],
      [file |-> TRUE, path |-> Path(<< QrcRoot, NameM, NameX \o DotPyo >>)],
      [file |-> TRUE, path |-> Path(<< QrcRoot, NameA, NameM, NameInit \o DotPyo >>)],
      [file |-> TRUE, path |-> Path(<< QrcRoot, NameA, NameM, NameX \o DotPyo >>)],
      [file |-> TRUE, path |-> Path(<< FsRoot, NameR, NameB, NameX \o DotSo >>)] }

PartsInit ==
    /\ host = Python3Host
    /\ build = "qrc"
    /\ platform = "unix"
    /\ \E chosen \in SUBSET PartsEntries :
          /\ Cardinality(chosen) <= MaxApiEntries
          /\ files = BaseFiles \cup { e.path : e \in chosen }
          /\ dirs = DirsOf(BaseFiles \cup { e.path : e \in chosen }, BaseDirs)
    /\ Fresh(ImpIds)

PartsNext ==
    \/ \E i \in DOMAIN importers, path \in PartsPaths : QrcImporterInit(i, path)
    \/ InitExecutableDir(ExePath, << >>)
    \/ \E i \in DOMAIN importers, fqmn \in PartsFqmns : FindModuleMethod(i, fqmn)

PartsSpec == PartsInit /\ [][PartsNext]_vars

(***************************************************************************)
(* The vocabulary of the properties.                                       *)
(***************************************************************************)
\* A call that ran find_module() has been made; its importer is unchanged
\* since, for every call on an importer records itself in last, and last.exec
\* is the value of the executable directory singleton when the call returned.
Resolving == last.op = "find_loader"
Self == importers[last.self]

Leaf(fqmn) == LastOf(Split(fqmn, "."))
Parents(fqmn) == AllButLast(Split(fqmn, "."))
Dotted(fqmn) == Len(Split(fqmn, ".")) > 1

\* The importer answers for the FQMN: mfsimporter answers for every name.
Responsible(imp, fqmn) == build = "mfs" \/ Parents(fqmn) = imp.path_parts

Root(imp) == IF build = "qrc" THEN imp.path ELSE imp.path \o << "/" >>
Suffix == IF build = "qrc" THEN DotPyo ELSE DotPyf
LogicalPath(imp, fqmn) == Root(imp) \o Leaf(fqmn)
ModuleFile(imp, fqmn) == LogicalPath(imp, fqmn) \o Suffix
PackageFile(imp, fqmn) ==
    LogicalPath(imp, fqmn) \o << "/" >> \o NameInit \o Suffix
Stored(p) == CleanPath(p) \in files
StoredDir(p) == CleanPath(p) \in dirs

\* The executable directory singleton as the recorded call saw it.
ExecDir == last.exec

\* The locations probed for an adjacent extension module, in the stated order.
BesideExecutableDir(name) ==
    Path(Append(AllButLast(Split(ExecDir[1], "/")), name))
ProbeLocations ==
    IF platform = "darwin"
    THEN << BesideExecutableDir(NamePlugIns), BesideExecutableDir(NameFrameworks),
            ExecDir[1] >>
    ELSE << ExecDir[1] >>
AdjacentFile(k, fqmn) ==
    ProbeLocations[k] \o << "/" >> \o fqmn \o ExtensionModuleExtension
AdjacentHits(fqmn) ==
    IF build = "qrc" /\ ExecDir # << >>
    THEN { k \in 1..Len(ProbeLocations) : Stored(AdjacentFile(k, fqmn)) }
    ELSE { }
FirstHit(fqmn) == CHOOSE k \in AdjacentHits(fqmn) : \A j \in AdjacentHits(fqmn) : k <= j

\* C1: for an FQMN the importer answers for, resolve returns the first kind
\* whose condition holds in the order Module (root+leaf+suffix is a file,
\* filename that file), Package (root+leaf/__init__+suffix is a file, filename
\* that file, logical path root+leaf), AdjacentExtension (executable directory
\* set and FQMN+extension is a file in a probed location, filename that file),
\* Namespace (root+leaf is a directory, logical path root+leaf), else NotFound.
C1_Precedence ==
    (Resolving /\ Responsible(Self, last.fqmn)) =>
        LET r == last.res
            f == last.fqmn
        IN  IF Stored(ModuleFile(Self, f))
            THEN r.kind = "ModuleIsModule" /\ r.filename = ModuleFile(Self, f)
            ELSE IF Stored(PackageFile(Self, f))
            THEN /\ r.kind = "ModuleIsPackage"
                 /\ r.filename = PackageFile(Self, f)
                 /\ r.pathname = LogicalPath(Self, f)
            ELSE IF AdjacentHits(f) # { }
            THEN /\ r.kind = "ModuleIsAdjacentExtensionModule"
                 /\ CleanPath(r.filename) = AdjacentFile(FirstHit(f), f)
            ELSE IF StoredDir(LogicalPath(Self, f))
            THEN r.kind = "ModuleIsNamespace" /\ r.pathname = LogicalPath(Self, f)
            ELSE r.kind = "ModuleNotFound"

\* A package is returned although an adjacent extension module and the
\* package directory exist as well.
C1_Witness ==
    /\ Resolving /\ Responsible(Self, last.fqmn)
    /\ build = "qrc"
    /\ ~Stored(ModuleFile(Self, last.fqmn))
    /\ Stored(PackageFile(Self, last.fqmn))
    /\ AdjacentHits(last.fqmn) # { }
    /\ last.res.kind = "ModuleIsPackage"

\* C2 as claimed: whenever root+leaf+suffix is a file, resolve returns Module
\* with that filename.
C2_AsClaimed ==
    (Resolving /\ Stored(ModuleFile(Self, last.fqmn))) =>
        /\ last.res.kind = "ModuleIsModule"
        /\ last.res.filename = ModuleFile(Self, last.fqmn)

\* C2: whenever root+leaf+suffix is a file and the FQMN's parent components
\* are the importer's, resolve returns Module with that filename, also when
\* the package file or the directory root+leaf exists; never Package or
\* Namespace.
C2_ModuleFirst ==
    (Resolving /\ Responsible(Self, last.fqmn) /\ Stored(ModuleFile(Self, last.fqmn))) =>
        /\ last.res.kind = "ModuleIsModule"
        /\ last.res.filename = ModuleFile(Self, last.fqmn)

\* The module file and the package file both exist, and Module is returned.
C2_Witness ==
    /\ Resolving /\ Responsible(Self, last.fqmn)
    /\ Stored(ModuleFile(Self, last.fqmn))
    /\ Stored(PackageFile(Self, last.fqmn))
    /\ last.res.kind = "ModuleIsModule"

\* C3 as claimed: when only the bare directory root+leaf exists (no module
\* file, no __init__ file), resolve returns Namespace with that logical path.
C3_AsClaimed ==
    (/\ Resolving
     /\ ~Stored(ModuleFile(Self, last.fqmn))
     /\ ~Stored(PackageFile(Self, last.fqmn))
     /\ StoredDir(LogicalPath(Self, last.fqmn))) =>
        /\ last.res.kind = "ModuleIsNamespace"
        /\ last.res.pathname = LogicalPath(Self, last.fqmn)

\* C3: when only the bare directory root+leaf exists, the FQMN's parent
\* components are the importer's and no adjacent extension module is found
\* for the FQMN, resolve returns Namespace with that logical path.
C3_Namespace ==
    (/\ Resolving /\ Responsible(Self, last.fqmn)
     /\ ~Stored(ModuleFile(Self, last.fqmn))
     /\ ~Stored(PackageFile(Self, last.fqmn))
     /\ AdjacentHits(last.fqmn) = { }
     /\ StoredDir(LogicalPath(Self, last.fqmn))) =>
        /\ last.res.kind = "ModuleIsNamespace"
        /\ last.res.pathname = LogicalPath(Self, last.fqmn)

\* A bare directory of a sub-package importer is resolved to Namespace.
C3_Witness ==
    /\ Resolving /\ Responsible(Self, last.fqmn)
    /\ Dotted(last.fqmn)
    /\ ~Stored(ModuleFile(Self, last.fqmn))
    /\ ~Stored(PackageFile(Self, last.fqmn))
    /\ StoredDir(LogicalPath(Self, last.fqmn))
    /\ last.res.kind = "ModuleIsNamespace"
    /\ last.res.pathname = LogicalPath(Self, last.fqmn)

\* C4: a qrcimporter resolving an FQMN whose parent components differ from
\* its stored path components returns NotFound before any probe of the
\* backing store or of the executable directory; when they are equal the
\* probes start with the module file, as the precedence rules require.
C4_NotResponsible ==
    (Resolving /\ build = "qrc") =>
        IF Parents(last.fqmn) # Self.path_parts
        THEN /\ last.res.kind = "ModuleNotFound"
             /\ last.res.probes = << >>
             /\ ~last.res.deref
        ELSE /\ last.res.probes # << >>
             /\ last.res.probes[1] = ModuleFile(Self, last.fqmn)

\* The module file root+leaf+suffix exists and the executable directory is
\* set, yet the FQMN of another package is rejected without a probe.
C4_Witness ==
    /\ Resolving /\ build = "qrc"
    /\ Parents(last.fqmn) # Self.path_parts
    /\ Stored(ModuleFile(Self, last.fqmn))
    /\ ExecDir # << >>
    /\ last.res.kind = "ModuleNotFound"
    /\ last.res.probes = << >>

\* C5: on the platform with the PlugIns/Frameworks layout the adjacent
\* extension probe returns the file of the first of PlugIns, Frameworks and
\* the executable's own directory that holds FQMN+extension.
C5_ProbeOrder ==
    (/\ Resolving /\ platform = "darwin"
     /\ last.res.kind = "ModuleIsAdjacentExtensionModule") =>
        LET f == last.fqmn
            found == CleanPath(last.res.filename)
        IN  /\ ExecDir # << >>
            /\ Len(ProbeLocations) = 3
            /\ IF Stored(AdjacentFile(1, f)) THEN found = AdjacentFile(1, f)
               ELSE IF Stored(AdjacentFile(2, f)) THEN found = AdjacentFile(2, f)
               ELSE Stored(AdjacentFile(3, f)) /\ found = AdjacentFile(3, f)

\* The same name is in PlugIns, in Frameworks and beside the executable, and
\* the file in PlugIns is the one returned.
C5_Witness ==
    /\ Resolving /\ platform = "darwin"
    /\ last.res.kind = "ModuleIsAdjacentExtensionModule"
    /\ \A k \in 1..3 : Stored(AdjacentFile(k, last.fqmn))
    /\ CleanPath(last.res.filename) = AdjacentFile(1, last.fqmn)
    /\ CleanPath(last.res.filename) # AdjacentFile(3, last.fqmn)

\* C6: while the executable directory is not set, resolve never returns
\* AdjacentExtension and never reads the singleton, whatever lies beside the
\* executable; it goes on to the Namespace and NotFound rules.
C6_Uninitialised ==
    (Resolving /\ build = "qrc" /\ ExecDir = << >>) =>
        /\ last.res.kind # "ModuleIsAdjacentExtensionModule"
        /\ ~last.res.deref
        /\ \A k \in 1..Len(last.res.probes) : StartsWith(last.res.probes[k], ":")
        /\ (/\ Responsible(Self, last.fqmn)
            /\ ~Stored(ModuleFile(Self, last.fqmn))
            /\ ~Stored(PackageFile(Self, last.fqmn))) =>
               last.res.kind = IF StoredDir(LogicalPath(Self, last.fqmn))
                               THEN "ModuleIsNamespace" ELSE "ModuleNotFound"

\* An extension module named after the FQMN lies beside the executable, the
\* directory is not set, and the name resolves to NotFound.
C6_Witness ==
    /\ Resolving /\ build = "qrc" /\ ExecDir = << >>
    /\ Responsible(Self, last.fqmn)
    /\ Path(<< FsRoot, NameR, NameB, last.fqmn \o ExtensionModuleExtension >>) \in files
    /\ last.res.kind = "ModuleNotFound"
    /\ Len(last.res.probes) = 3

\* C7: a find_loader() entered from the external resolver of a delegated
\* lookup does not delegate again: at most one delegated lookup is in progress
\* and at most one is started per top-level call, so the nesting is bounded.
C7_RecursionGuard ==
    /\ Len(stack) <= 1
    /\ delegations <= 1
    /\ (Resolving /\ last.depth >= 1) => last.ret # Pending

\* The external resolver called back with the dotted, unresolvable FQMN that
\* is being delegated, and the nested call reported not-found.
C7_Witness ==
    /\ Resolving /\ last.depth = 1
    /\ Len(stack) = 1
    /\ last.fqmn = stack[1].fqmn
    /\ Dotted(last.fqmn)
    /\ last.res.kind = "ModuleNotFound"
    /\ last.ret = [loader |-> "None", portions |-> << >>]
    /\ delegations = 1

\* C8: find_loader() delegates only when the FQMN resolved to NotFound and
\* contains a dot; an undotted FQMN and a locally resolved one never do.
C8_DelegatesOnly ==
    /\ \A k \in 1..Len(stack) :
          stack[k].res.kind = "ModuleNotFound" /\ Dotted(stack[k].fqmn)
    /\ (Resolving /\ (~Dotted(last.fqmn) \/ last.res.kind # "ModuleNotFound")) =>
          /\ last.ret = LoaderPair(last.res)
          /\ last.depth = 0 => (stack = << >> /\ delegations = 0)

\* An undotted FQMN that resolves to NotFound is answered without a lookup.
C8_Witness ==
    /\ Resolving /\ last.depth = 0
    /\ ~Dotted(last.fqmn)
    /\ last.res.kind = "ModuleNotFound"
    /\ last.ret = [loader |-> "None", portions |-> << >>]
    /\ stack = << >> /\ delegations = 0

\* What resolve returns for importer i and an FQMN in the present state,
\* and what a recorded resolve returned.
Resolution(i, fqmn) ==
    LET r == FindModule(importers[i], fqmn)
    IN  << r.kind, r.pathname, r.filename >>
Returned(r) == << r.kind, r.pathname, r.filename >>

\* C9 as claimed: over the unchanged store, a resolve of the same importer
\* and FQMN returns what the earlier one returned, whatever has happened
\* since, initialisation of the executable directory included.
C9_AsClaimed ==
    Resolving => Resolution(last.self, last.fqmn) = Returned(last.res)

\* C9: over the unchanged store, a resolve of the same importer and FQMN
\* returns the kind, pathname and filename the earlier one returned whenever
\* the executable directory singleton has the value it had when the earlier
\* one returned, whatever calls, delegations and initialisations lie between
\* them; a resolve itself changes nothing that a resolve depends on.
C9_Idempotent ==
    /\ (Resolving /\ ExecDir = executable_dir) =>
          Resolution(last.self, last.fqmn) = Returned(last.res)
    /\ \A k \in 1..Len(stack) :
          Resolution(stack[k].self, stack[k].fqmn) = Returned(stack[k].res)

\* With the executable directory set and an adjacent extension module in
\* place, the external resolver of a delegated lookup asked the same importer
\* for the delegated FQMN again, and the nested resolve repeated the outer one.
C9_Witness ==
    /\ Resolving /\ last.depth = 1 /\ Len(stack) = 1
    /\ executable_dir # << >>
    /\ last.self = stack[1].self
    /\ last.fqmn = stack[1].fqmn
    /\ last.res = stack[1].res
    /\ AdjacentHits(NameM) # { }

\* C10: once the executable directory singleton is set, no operation, a
\* second initialisation call included, changes its value.
C10_WrittenOnce ==
    [][executable_dir # << >> => executable_dir' = executable_dir]_vars

\* What find_loader() answers for a resolution when no delegated lookup is in
\* progress anywhere, and the answers a finished delegated lookup can give.
Delegable(res, fqmn) == res.kind = "ModuleNotFound" /\ Dotted(fqmn)
Undisturbed(res, fqmn) ==
    IF Delegable(res, fqmn) THEN Pending ELSE LoaderPair(res)
DelegatedAnswers ==
    { ReturnedNull } \cup
    { [loader |-> o, portions |-> << >>] : o \in ExternalOutcomes \ { "error" } }

\* C11 as claimed: a find_loader() made on one importer while a delegated
\* lookup started on another importer is in progress answers as it would
\* with no lookup in progress.
C11_AsClaimed ==
    (Resolving /\ last.depth >= 1 /\ stack # << >> /\
     stack[1].self # last.self) =>
        last.ret = Undisturbed(last.res, last.fqmn)

\* C11: besides the executable directory the importers share the recursion
\* flag of find_loader(), and nothing else: the resolution of a call is that
\* of its own importer, and its answer is decided by the resolution and the
\* flag alone.  While a delegated lookup is in progress, whichever importer
\* started it, no find_loader() delegates; with none in progress a dotted
\* NotFound is delegated and every other resolution is answered locally.
C11_SharedFlagOnly ==
    Resolving =>
        /\ ExecDir = executable_dir =>
               Returned(last.res) = Resolution(last.self, last.fqmn)
        /\ last.depth >= 1 => last.ret = LoaderPair(last.res)
        /\ (last.depth = 0 /\ stack # << >>) =>
               /\ last.ret = Pending
               /\ Delegable(last.res, last.fqmn)
        /\ (last.depth = 0 /\ stack = << >>) =>
               IF Delegable(last.res, last.fqmn)
               THEN last.ret \in DelegatedAnswers
               ELSE last.ret = LoaderPair(last.res)

\* While the lookup delegated by one importer is in progress, another
\* importer is asked for a dotted name of its own package that it cannot
\* resolve, and answers not-found without a lookup.
C11_Witness ==
    /\ Resolving /\ last.depth = 1 /\ Len(stack) = 1
    /\ stack[1].self # last.self
    /\ Responsible(Self, last.fqmn)
    /\ Delegable(last.res, last.fqmn)
    /\ last.ret = [loader |-> "None", portions |-> << >>]

\* A load_module() call has been made; Self is its importer.
Loading == last.op = "load_module"
CallsNamed(call) == { k \in 1..Len(last.calls) : last.calls[k].call = call }
ExecCall == "PyImport_ExecCodeModule"

\* C12: a load of an FQMN that resolves to Package sets, on the module,
\* __path__ to the one-element list holding the logical path root+leaf, once,
\* and sets it and __loader__ before the code of the package is executed;
\* a load that returns the module has executed the code.
C12_PathBeforeCode ==
    (Loading /\ last.res.kind = "ModuleIsPackage") =>
        /\ last.ret = "module" => CallsNamed(ExecCall) # { }
        /\ \A k \in CallsNamed(ExecCall) :
              /\ Cardinality(CallsNamed("__path__")) = 1
              /\ \A j \in CallsNamed("__path__") :
                    /\ j < k
                    /\ last.calls[j].name = last.fqmn
                    /\ last.calls[j].arg = << LogicalPath(Self, last.fqmn) >>
              /\ \E j \in CallsNamed("__loader__") : j < k

\* A package is loaded and its code executed with __path__ in place.
C12_Witness ==
    /\ Loading /\ last.res.kind = "ModuleIsPackage"
    /\ last.ret = "module"
    /\ Len(last.calls) = 4
    /\ last.calls[3] = HostCall("__path__", last.fqmn, << LogicalPath(Self, last.fqmn) >>)
    /\ last.calls[4].call = ExecCall

NothingLoaded(err) ==
    /\ last.ret = "NULL" /\ last.err = err
    /\ last.reads = << >> /\ last.calls = << >>

\* C13 as claimed: a load of an FQMN that resolves to Namespace or NotFound
\* fails with an error and reads no code file.
C13_AsClaimed ==
    (Loading /\ last.res.kind \in { "ModuleIsNamespace", "ModuleNotFound" }) =>
        /\ last.ret = "NULL" /\ last.err # NoError
        /\ last.reads = << >>

\* C13: a load of an FQMN that resolves to Namespace, or on Python 3 to
\* NotFound, fails with the can't-find-module error, reading no file and
\* calling nothing; on Python 2 a NotFound name is handed to imp.init_builtin
\* and what that returns is returned; for AdjacentExtension no code file is
\* read or decoded: the located file is opened and, once open, handed with
\* the FQMN, the filename and the platform's extension to imp.load_module.
C13_Accepts ==
    Loading =>
        /\ (last.res.kind = "ModuleIsNamespace" \/
             (last.res.kind = "ModuleNotFound" /\ Python3)) =>
               NothingLoaded(CantFindModule)
        /\ (last.res.kind = "ModuleNotFound" /\ ~Python3) =>
               /\ last.reads = << >>
               /\ last.calls = << HostCall("imp.init_builtin", last.fqmn, << >>) >>
               /\ last.ret = IF last.hostret = "error" THEN "NULL" ELSE last.hostret
        /\ last.res.kind = "ModuleIsAdjacentExtensionModule" =>
               /\ last.reads = << >>
               /\ last.err \in { NoError, HostError }
               /\ last.calls # << >>
               /\ last.calls[1] = HostCall("open", NullStr, << last.res.filename >>)
               /\ last.opens =>
                      /\ Len(last.calls) = 2
                      /\ last.calls[2] =
                            HostCall("imp.load_module", last.fqmn,
                                     << last.res.filename, ExtensionModuleExtension >>)
        /\ last.reads # << >> => last.res.kind \in { "ModuleIsModule", "ModuleIsPackage" }

\* An extension module beside the executable is handed to imp.load_module.
C13_Witness ==
    /\ Loading /\ last.res.kind = "ModuleIsAdjacentExtensionModule"
    /\ last.ret = "module"
    /\ last.reads = << >>
    /\ Len(last.calls) = 2
    /\ last.calls[2].call = "imp.load_module"

\* The errors of a load as the specification names them.
ResourceUnavailable == ErrorOpeningFile
CorruptCode == MarshalError

Finding == last.op = "find_module"
NotFoundPair == [loader |-> "None", portions |-> << >>]

\* C15 as claimed: an FQMN, dotted or not, that matches no rule is answered
\* by find_loader() with no loader and no portions and by find_module() with
\* None, never with an error.
C15_AsClaimed ==
    /\ (Resolving /\ last.res.kind = "ModuleNotFound" /\ last.ret # Pending) =>
          last.ret = NotFoundPair
    /\ (Finding /\ last.res.kind = "ModuleNotFound") => last.ret = "None"

\* C15: find_module() never raises and answers an FQMN that matches no rule
\* with None, unless the FQMN is dotted and names a builtin of the host, when
\* it answers with the importer; find_loader() answers an FQMN that matches
\* no rule with no loader and no portions when the FQMN is undotted or a
\* delegated lookup is in progress, and otherwise delegates and passes on
\* what the external resolver gives: its loader, None, or its error, which
\* is the only error find_loader() returns.
C15_NotFoundIsOrdinary ==
    /\ Finding =>
          /\ last.ret \in { "self", "None" }
          /\ last.res.kind = "ModuleNotFound" =>
                (last.ret = "self") = (Dotted(last.fqmn) /\ last.fqmn \in host.inittab)
    /\ (Resolving /\ last.res.kind = "ModuleNotFound") =>
          IF ~Dotted(last.fqmn) \/ last.depth >= 1
          THEN last.ret = NotFoundPair
          ELSE last.ret \in { Pending } \cup DelegatedAnswers
    /\ (Resolving /\ last.ret = ReturnedNull) =>
          /\ Delegable(last.res, last.fqmn)
          /\ last.depth = 0

\* With a builtin table that holds another dotted name, find_module()
\* answers None for a dotted FQMN that matches no rule.
C15_Witness ==
    /\ Finding /\ last.res.kind = "ModuleNotFound"
    /\ Dotted(last.fqmn)
    /\ host.inittab # { }
    /\ last.fqmn \notin host.inittab
    /\ Responsible(Self, last.fqmn)
    /\ last.ret = "None"

\* An importer's initialiser has been called; Self is the object.
Constructing == last.op = "init"
RootMarker == ":"
Separator == "/"

\* C16 as claimed: construction fails exactly when the root does not begin
\* with the marker or is not a directory, and a stored root ends with the
\* separator.
C16_AsClaimed ==
    Constructing =>
        /\ (last.ret = "ImportError") =
              (~StartsWith(last.arg, RootMarker) \/ ~StoredDir(last.arg))
        /\ last.ret = "ok" => EndsWith(Self.path, Separator)

\* What the initialiser of each importer type accepts and stores.
C16_Outcome ==
    Constructing =>
        IF build = "qrc"
        THEN /\ (last.ret = "ImportError") =
                   (~StartsWith(last.arg, RootMarker) \/ ~StoredDir(last.arg))
             /\ last.ret = "ok" =>
                   /\ Self.ok
                   /\ EndsWith(Self.path, Separator)
                   /\ Self.path = IF EndsWith(last.arg, Separator) THEN last.arg
                                   ELSE last.arg \o << Separator >>
        ELSE /\ (last.ret = "ImportError") = ~StoredDir(last.arg)
             /\ last.ret = "ok" => (Self.ok /\ Self.path = last.arg)

\* A failed initialiser leaves the object as it was.
C16_FailureKeeps ==
    (last'.op = "init" /\ last'.ret = "ImportError") => importers' = importers

\* C16: construction of a qrcimporter fails when the root does not begin with
\* the marker or is not a directory, and a root it stores ends with the
\* separator, appended only if missing; construction of an mfsimporter fails
\* when the root is not a directory, and it stores the root as given; a
\* failed initialiser leaves the object as it was: without a root when new.
C16_Construction == []C16_Outcome /\ [][C16_FailureKeeps]_vars

\* A qrcimporter was constructed on a root without a trailing separator.
C16_Witness ==
    /\ Constructing /\ build = "qrc"
    /\ last.ret = "ok"
    /\ ~EndsWith(last.arg, Separator)
    /\ Self.path = last.arg \o << Separator >>

\* C17: once an importer is constructed, no operation changes its stored
\* root path or path components.
C17_RootImmutable ==
    [][\A i \in DOMAIN importers : importers[i].ok => importers'[i] = importers[i]]_vars

\* A reader has been asked of importer Self for the package last.fqmn.
AskingReader == last.op = "get_resource_reader"

\* What the asker of a reader gets back.
C18_Outcome ==
    AskingReader =>
        IF last.res.kind = "ModuleIsPackage"
        THEN /\ last.ret = "reader" /\ last.err = NoError
             /\ reader.ok
             /\ reader.pathname = LogicalPath(Self, last.fqmn)
        ELSE last.ret = "NULL" /\ last.err = NotAPackage

\* A refused request creates no reader.
C18_RefusalKeeps ==
    (last'.op = "get_resource_reader" /\ last'.ret = "NULL") => reader' = reader

\* C18: get_resource_reader for a name that resolves to Package returns a
\* reader whose directory is the package's logical path; for a name that
\* resolves to Module, Namespace, AdjacentExtension or NotFound it fails with
\* the not-a-package error and creates no reader.
C18_PackageOnly == []C18_Outcome /\ [][C18_RefusalKeeps]_vars

\* A reader was refused for a name that resolves to Module, with no reader
\* in existence.
C18_Witness ==
    /\ AskingReader /\ last.res.kind = "ModuleIsModule"
    /\ last.ret = "NULL" /\ last.err = NotAPackage
    /\ reader = NoReader

\* A resource has been asked about, or asked for, by name.
AskingIsResource == last.op = "is_resource"
AskingOpenResource == last.op = "open_resource"
UnderPackage(name) == reader.pathname \o << Separator >> \o name

\* C19: is_resource(name) returns true iff name exists under the package
\* directory and is a file, false iff it exists and is a directory, and
\* fails with the not-found error iff it does not exist at all.
C19_IsResource ==
    AskingIsResource =>
        LET p == UnderPackage(last.name)
        IN  /\ (last.ret = "True") = Stored(p)
            /\ (last.ret = "False") = (StoredDir(p) /\ ~Stored(p))
            /\ (last.ret = "NULL" /\ last.err = FileNotFound) =
                  (~Stored(p) /\ ~StoredDir(p))
            /\ last.ret \in { "True", "False", "NULL" }

\* is_resource answered false for a directory of the package.
C19_Witness ==
    /\ AskingIsResource
    /\ StoredDir(UnderPackage(last.name))
    /\ last.ret = "False"

\* C20: open_resource(name) for a name that is not a file under the package
\* directory fails with the not-found error kind.
C20_FailsNotFound ==
    (AskingOpenResource /\ ~Stored(UnderPackage(last.name))) =>
        (last.ret = "NULL" /\ last.err = FileNotFound)

\* The path of a resource has been asked for by name.
AskingResourcePath == last.op = "resource_path"

\* C21: resource_path(name) fails with the not-found error for every name,
\* whether or not the package holds the resource, and never returns a path.
C21_AlwaysFails ==
    AskingResourcePath => (last.ret = "NULL" /\ last.err = FileNotFound)

\* The path of a file the package holds was asked for, and refused.
C21_Witness ==
    /\ AskingResourcePath
    /\ Stored(UnderPackage(last.name))
    /\ last.ret = "NULL"

\* The operations of a handle, and the error the interface gives a read of
\* a closed handle.
HandleOps == { "read", "flush", "close", "readable", "seekable", "writable", "closed" }
InvalidState == "ValueError"
Open == resource.ok /\ resource.open
Closed == resource.ok /\ ~resource.open

\* Where each operation leaves the handle, and what closed answers.
C22_States ==
    /\ (last.op = "open_resource" /\ last.ret = "resource") => Open
    /\ last.op = "close" => Closed
    /\ last.op = "closed" => ((last.ret = "True") = Closed /\ (last.ret = "False") = Open)

\* No operation of the handle opens it; only close closes it; a close of a
\* closed handle changes nothing.
C22_Steps ==
    last'.op \in HandleOps =>
        /\ Closed => (Closed' /\ resource' = resource)
        /\ (Open /\ last'.op # "close") => Open'

\* C22: a handle is Open after a successful open_resource, close moves it
\* to Closed, a second close is a no-op, none of read, flush, close,
\* readable, seekable, writable and closed moves a Closed handle back to
\* Open, and the closed attribute is true exactly in state Closed.
C22_OpenThenClosed == []C22_States /\ [][C22_Steps]_vars

\* A closed handle has been closed again.
C22_Witness ==
    /\ last.op = "close" /\ ~last.open
    /\ Closed

\* C23: a read of a closed handle, with or without a size, fails with
\* InvalidState instead of returning data.
C23_ReadAfterClose ==
    (last.op = "read" /\ ~last.open) => (last.ret = "NULL" /\ last.err = InvalidState)

\* C24: on an open handle read(n) with n >= 0 returns the next
\* min(n, remaining) bytes and advances the position by that amount, read
\* with n omitted or negative returns all remaining bytes, a read at
\* end-of-data returns an empty result and no error, and the results of the
\* reads so far, concatenated, are the file's contents up to the position.
C24_Read ==
    /\ (last.op = "read" /\ last.open) =>
          LET n == IF last.args = << >> THEN 0 - 1 ELSE last.args[1]
              remaining == Len(resource.data) - last.pos
              k == IF n < 0 \/ n > remaining THEN remaining ELSE n
          IN  /\ last.err = NoError
              /\ last.ret = [j \in 1..k |-> resource.data[last.pos + j]]
              /\ resource.pos = last.pos + k
              /\ remaining = 0 => last.ret = << >>
    /\ Open =>
          /\ resource.pos \in 0..Len(resource.data)
          /\ resource.got = SubSeq(resource.data, 1, resource.pos)
          /\ resource.pos = Len(resource.data) => resource.got = resource.data

\* A read after a sized read reached end-of-data: it returned nothing, and
\* the reads together returned the file's contents.
C24_Witness ==
    /\ last.op = "read" /\ last.open
    /\ last.args # << >>
    /\ Len(resource.data) = MaxData
    /\ last.pos = Len(resource.data)
    /\ last.ret = << >>
    /\ resource.got = resource.data

\* No find_loader call is in progress.
Idle == stack = << >>

\* C25: the delegation guard flag is false whenever no find_loader call is
\* in progress, also after a delegated lookup that failed, and a top-level
\* find_loader for a dotted FQMN that resolves to NotFound delegates.
C25_GuardClearWhenIdle ==
    /\ Idle => ~recursing
    /\ (Resolving /\ last.depth = 0 /\ Dotted(last.fqmn)
            /\ last.res.kind = "ModuleNotFound") => delegations = 1

\* The external resolver failed, find_loader passed the failure on, and the
\* flag is clear.
C25_Witness ==
    /\ Resolving /\ last.depth = 0
    /\ last.ret = ReturnedNull
    /\ Idle /\ ~recursing

\* C26: when find_module returns the importer itself for an FQMN, a
\* load_module of that FQMN on the same importer over the unchanged store
\* does not fail with the "can't find module" error, whatever the file
\* holds and the host's calls return.
C26_FinderLoaderAgree ==
    (Finding /\ last.ret = "self") =>
        \A env \in LoadEnvs :
            LoadResolved(last.fqmn, last.res, env.opens, env.blob, env.hostret).err
                # CantFindModule

\* What construction on a root ":/c1/.../ck" stores.
C27_Stored ==
    (Constructing /\ last.ret = "ok") =>
        \A cs \in ComponentLists, t \in BOOLEAN :
            last.arg = RootOf(cs, t) =>
                /\ Self.path_parts = cs
                /\ Self.path = RootOf(cs, TRUE)

\* An importer resolves only the direct children of its components.
C27_Children ==
    (Finding /\ last.res.kind # "ModuleNotFound") =>
        /\ Split(last.fqmn, ".") = Append(Self.path_parts, Leaf(last.fqmn))
        /\ ~Dotted(last.fqmn) => Self.path = RootOf(<< >>, TRUE)

\* The importer constructed on the logical path that some importer resolves
\* for FQMN f as a Package or Namespace answers for exactly the names f.x.
C27_OnLogicalPath ==
    (Constructing /\ last.ret = "ok") =>
        \A cs \in ComponentLists, f \in PartsFqmns :
            LET parent == [ok |-> TRUE, path |-> RootOf(cs, TRUE), path_parts |-> cs]
                r == FindModule(parent, f)
            IN  (r.kind \in { "ModuleIsPackage", "ModuleIsNamespace" }
                    /\ r.pathname = last.arg) =>
                    \A g \in PartsFqmns :
                        Responsible(Self, g) = (Parents(g) = Split(f, "."))

\* C27: a qrcimporter constructed on ":/c1/.../ck", with or without a
\* trailing separator, stores the components [c1,...,ck] and the root
\* ":/c1/.../ck/"; it resolves to other than NotFound only FQMNs of the form
\* c1. ... .ck.leaf, so an undotted FQMN only when rooted at ":/"; and when
\* constructed on the logical path of a Package or Namespace resolved for f
\* it answers for exactly the direct children f.x.
C27_Components == C27_Stored /\ C27_Children /\ C27_OnLogicalPath

\* The importer constructed on the logical path of the package a.m, given
\* with a trailing separator, resolved a.m.x.
C27_Witness ==
    /\ Finding
    /\ Self.path_parts = << NameA, NameM >>
    /\ last.fqmn = FqmnAMX
    /\ last.res.kind = "ModuleIsModule"
    /\ Stored(Path(<< QrcRoot, NameA, NameM, NameInit \o DotPyo >>))

\* find_loader has returned, and whether its answer came from a delegated
\* lookup: a top-level call for a dotted FQMN that resolved to NotFound.
Answered == Resolving /\ last.ret # Pending
Delegated ==
    last.res.kind = "ModuleNotFound" /\ Dotted(last.fqmn) /\ last.depth = 0

\* C28: find_loader returns (this importer, empty list) for Module, Package
\* and AdjacentExtension; (no loader, the namespace's logical path alone) for
\* Namespace; (no loader, empty list) for a NotFound that is not delegated;
\* and (the external resolver's result, empty list) for a delegated NotFound,
\* or that resolver's failure.  The importer is never the loader of a
\* Namespace or NotFound name.
C28_Pair ==
    Answered =>
        /\ last.res.kind \in { "ModuleIsModule", "ModuleIsPackage",
                                "ModuleIsAdjacentExtensionModule" } =>
              last.ret = [loader |-> "self", portions |-> << >>]
        /\ last.res.kind = "ModuleIsNamespace" =>
              last.ret = [loader |-> "None",
                          portions |-> << LogicalPath(Self, last.fqmn) >>]
        /\ (last.res.kind = "ModuleNotFound" /\ ~Delegated) =>
              last.ret = [loader |-> "None", portions |-> << >>]
        /\ Delegated =>
              /\ last.ret.portions = << >>
              /\ last.ret.loader \in { "external", "None", "NULL" }
        /\ last.res.kind \in { "ModuleIsNamespace", "ModuleNotFound" } =>
              last.ret.loader # "self"

\* A name that resolves to Namespace was answered with no loader and the
\* namespace's logical path.
C28_Witness ==
    /\ Answered
    /\ last.res.kind = "ModuleIsNamespace"
    /\ last.ret.loader = "None"
    /\ last.ret.portions = << LogicalPath(Self, last.fqmn) >>

\* The calls that create or register a module or set its attributes.
RegistryCalls == { "PyImport_AddModule", "__loader__", "__path__", ExecCall }
FailedBeforeModule ==
    last.err \in { CantFindModule, ErrorOpeningFile, MarshalError }

\* C29: a load that fails because the name resolves to Namespace or
\* NotFound, because the code file cannot be read, or because what was read
\* cannot be decoded returns no module and has made no call that creates or
\* registers a module or sets a loader or search-path attribute; each of
\* these causes is such a failure.
C29_FailureLeavesRegistry ==
    Loading =>
        /\ FailedBeforeModule =>
              /\ last.ret = "NULL"
              /\ \A c \in RegistryCalls : CallsNamed(c) = { }
        /\ (last.res.kind = "ModuleIsNamespace" \/
             (last.res.kind = "ModuleNotFound" /\ Python3)) => FailedBeforeModule
        /\ (HasCode(last.res) /\ (~last.opens \/ last.blob = "corrupt")) =>
              FailedBeforeModule

\* A package whose code file cannot be decoded: the load failed and made
\* no call.
C29_Witness ==
    /\ Loading /\ last.res.kind = "ModuleIsPackage"
    /\ last.opens /\ last.blob = "corrupt"
    /\ last.err = MarshalError
    /\ last.calls = << >>

\* C30: the mfsimporter resolver has no responsibility check: on the same
\* importer every FQMN with the same last component resolves to the same
\* kind, pathname and filename, which are those of the root and that
\* component, and the kind is never AdjacentExtension.
C30_LeafOnly ==
    (Resolving /\ build = "mfs") =>
        /\ \A g \in Fqmns :
              Leaf(g) = Leaf(last.fqmn) => Resolution(last.self, g) = Returned(last.res)
        /\ last.res.pathname = Self.path \o << Separator >> \o Leaf(last.fqmn)
        /\ last.res.kind \in { "ModuleIsModule", "ModuleIsPackage",
                                "ModuleIsNamespace", "ModuleNotFound" }

\* An mfsimporter resolved a dotted FQMN to the module file its last
\* component names under the root.
C30_Witness ==
    /\ Resolving /\ build = "mfs"
    /\ Dotted(last.fqmn)
    /\ last.res.kind = "ModuleIsModule"
    /\ Resolution(last.self, Leaf(last.fqmn)) = Returned(last.res)

====
